---- MODULE Spec2Model ----
(***************************************************************************)
(* Model of src/js/app.js: the search field with its debounce timer, the   *)
(* geocoding fetches it issues, and the updateWeather / error404 page      *)
(* rendering chain with its nested completion callbacks.                   *)
(*                                                                         *)
(* A page region (an element's innerHTML) is the sequence of its child     *)
(* elements: << >> is innerHTML = "", and a region that holds one list     *)
(* card is << items >>, items being the sequence of the list's <li>.       *)
(***************************************************************************)
EXTENDS Integers, Sequences, FiniteSets, TLC

VARIABLES
    searchViewActive,   \* searchView.classList has "active"
    fieldValue,         \* searchField.value
    fieldSearching,     \* searchField.classList has "searching"
    resultActive,       \* searchResult.classList has "active"
    resultContent,      \* searchResult.innerHTML
    searchTimeout,      \* let searchTimeout (Null or a timer id)
    timers,             \* pending setTimeout callbacks of the event loop
    nextTimerId,        \* the id the next setTimeout call returns
    geoReqs,            \* geocoding fetches in flight (their URLs)
    geoIssued,          \* history: queries fetched in the current burst of keystrokes
    hash,               \* window.location.hash
    loadingActive,      \* loading.classList has "active"
    containerOverflowY, \* container.style.overflowY
    containerClasses,   \* container.classList
    errorDisplay,       \* errorContent.style.display
    btnDisabled,        \* currentLocationBtn has the disabled attribute
    currentWeatherSection,  \* [data-current-weather] children
    hourlySection,          \* [data-hourly-forecast] children
    highlightSection,       \* [data-highlights] children
    forecastSection,        \* [data-5-day-forecast] children
    nCalls,             \* updateWeather calls made so far; call c owns chain c
    req,                \* req[c]: the state of chain c's four fetches
    cw,                 \* cw[c]: the current-weather response captured by chain c's closures
    fcl,                \* fcl[c]: the forecast list delivered to chain c
    tabActive,          \* the tab buttons whose classList has "active"
    panelDisplay,       \* panelDisplay[p]: style.display of content panel p ("" when unset)
    tabTarget           \* tabTarget[id]: the panel captured by the callback of tab timer id

searchVars == <<searchViewActive, fieldValue, fieldSearching, resultActive,
                resultContent, searchTimeout, timers, nextTimerId, geoReqs, geoIssued>>

pageVars == <<loadingActive, containerOverflowY, containerClasses, errorDisplay,
              btnDisabled, currentWeatherSection, hourlySection, highlightSection,
              forecastSection>>

chainVars == <<nCalls, req, cw, fcl>>

tabVars == <<tabActive, panelDisplay, tabTarget>>

vars == <<searchVars, hash, pageVars, chainVars, tabVars>>

----------------------------------------------------------------------------
(* Bounds *)
MaxTimerId == 3      \* setTimeout calls in one run
MaxGeo == 2          \* geocoding fetches in flight at once
MaxLocations == 2    \* locations in one geocoding response
MaxCalls == 2        \* updateWeather calls in one run
MaxList == 24        \* length of a forecast list
NumTabs == 3         \* tab buttons, each with its content panel

(* Program constants *)
Null == 0                       \* let searchTimeout = null; timer ids are positive
searchTimeoutDuration == 500
tabDelay == 10                  \* the delay of switchTab's setTimeout

FieldValues == {"", "a", "ab"}

CurrentLocationHash == "#/current-location"
WeatherHash == "#/weather?lat&lon"
Hashes == {CurrentLocationHash, WeatherHash, "#/current-location/", ""}

----------------------------------------------------------------------------
(* The event loop's timers.  All search timers have the same delay, so     *)
(* they expire in the order in which they were set.                        *)

SetTimeout(ts, id, kind, delay) == ts \cup {[id |-> id, kind |-> kind, delay |-> delay]}

ClearTimeout(ts, id) == {t \in ts : t.id # id}

SearchTimers == {t \in timers : t.kind = "search"}

TabTimers == {t \in timers : t.kind = "tab"}

NextDue(ts) == CHOOSE t \in ts : \A u \in ts : t.id <= u.id

(* api.js: the endpoint URL builder and the fetch helper.  A fetch is a    *)
(* request in flight; its completion callback runs when (and if) the       *)
(* response is delivered.                                                  *)

UrlGeo(query) == [endpoint |-> "geo", q |-> query]

FetchData(inflight, url) == Append(inflight, url)

RemoveAt(s, j) == [i \in 1..(Len(s) - 1) |-> IF i < j THEN s[i] ELSE s[i + 1]]

----------------------------------------------------------------------------
(* Search field: the "input" listener, lines 58-103 *)

\* line 59: searchTimeout ?? clearTimeout(searchTimeout)
ClearPending(ts, st) == IF st = Null THEN ClearTimeout(ts, st) ELSE ts

\* mutant: the handler tests the field, not its value
HasValueAlways(v) == TRUE

\* line 60 / line 68: the truthiness of searchField.value
HasValue(v) == v # ""

\* lines 78-94: one <li> per location of the response
SearchItem(loc) == [title |-> loc.name, href |-> WeatherHash]

Locations(query, k) == [i \in 1..k |-> [name |-> <<query, i>>]]

Input(v) ==
    LET cleared == ClearPending(timers, searchTimeout) IN
    /\ HasValue(v) => nextTimerId <= MaxTimerId
    /\ fieldValue' = v
    /\ IF ~HasValue(v)
         THEN /\ resultActive' = FALSE
              /\ resultContent' = << >>
              /\ fieldSearching' = FALSE
         ELSE /\ fieldSearching' = TRUE
              /\ UNCHANGED <<resultActive, resultContent>>
    /\ IF HasValue(v)
         THEN /\ timers' = SetTimeout(cleared, nextTimerId, "search", searchTimeoutDuration)
              /\ searchTimeout' = nextTimerId
              /\ nextTimerId' = nextTimerId + 1
         ELSE /\ timers' = cleared
              /\ UNCHANGED <<searchTimeout, nextTimerId>>
    /\ geoIssued' = IF SearchTimers = {} THEN << >> ELSE geoIssued
    /\ UNCHANGED <<searchViewActive, geoReqs, hash, pageVars, chainVars, tabVars>>

\* lines 69-70: the timer callback reads searchField.value when it runs
SearchTimerFire ==
    /\ SearchTimers # {}
    /\ Len(geoReqs) < MaxGeo
    /\ timers' = timers \ {NextDue(SearchTimers)}
    /\ geoReqs' = FetchData(geoReqs, UrlGeo(fieldValue))
    /\ geoIssued' = Append(geoIssued, fieldValue)
    /\ UNCHANGED <<searchViewActive, fieldValue, fieldSearching, resultActive,
                   resultContent, searchTimeout, nextTimerId, hash, pageVars, chainVars,
                   tabVars>>

\* lines 70-100: the geocoding completion callback
GeoDone(j, k) ==
    /\ j \in 1..Len(geoReqs)
    /\ fieldSearching' = FALSE
    /\ resultActive' = TRUE
    /\ resultContent' = << [i \in 1..k |-> SearchItem(Locations(geoReqs[j].q, k)[i])] >>
    /\ geoReqs' = RemoveAt(geoReqs, j)
    /\ UNCHANGED <<searchViewActive, fieldValue, searchTimeout, timers, nextTimerId,
                   geoIssued, hash, pageVars, chainVars, tabVars>>

\* a geocoding fetch that fails: its callback never runs
GeoFail(j) ==
    /\ j \in 1..Len(geoReqs)
    /\ geoReqs' = RemoveAt(geoReqs, j)
    /\ UNCHANGED <<searchViewActive, fieldValue, fieldSearching, resultActive, resultContent,
                   searchTimeout, timers, nextTimerId, geoIssued, hash, pageVars, chainVars,
                   tabVars>>

\* line 46
ToggleSearch(active) == ~active

\* line 47: a click on one of the page's [data-search-toggler] elements
SearchTogglerClick ==
    /\ searchViewActive' = ToggleSearch(searchViewActive)
    /\ UNCHANGED <<fieldValue, fieldSearching, resultActive, resultContent, searchTimeout,
                   timers, nextTimerId, geoReqs, geoIssued, hash, pageVars, chainVars,
                   tabVars>>

\* lines 96-99, and the link of line 87 the click follows
SearchResultClick(i) ==
    /\ Len(resultContent) = 1
    /\ i \in 1..Len(resultContent[1])
    /\ searchViewActive' = ToggleSearch(searchViewActive)
    /\ resultActive' = FALSE
    /\ hash' = resultContent[1][i].href
    /\ UNCHANGED <<fieldValue, fieldSearching, resultContent, searchTimeout, timers,
                   nextTimerId, geoReqs, geoIssued, pageVars, chainVars, tabVars>>

NextSearch ==
    \/ \E v \in FieldValues : Input(v)
    \/ SearchTimerFire
    \/ \E j \in 1..MaxGeo, k \in 0..MaxLocations : GeoDone(j, k)
    \/ \E j \in 1..MaxGeo : GeoFail(j)
    \/ SearchTogglerClick
    \/ \E i \in 1..MaxLocations : SearchResultClick(i)

----------------------------------------------------------------------------
(* Tabs: switchTab, lines 120-145.  Button t carries data-tab-target, the  *)
(* id of content panel t.                                                  *)

Tabs == 1..NumTabs

\* mutant: the clicked button is activated and the others are left alone
ActivateTabOnly(active, t) == active \cup {t}

\* lines 127-129: every button loses "active", then the clicked one gets it
ActivateTab(active, t) == (active \ Tabs) \cup {t}

\* line 135: every panel is hidden
HideAll(display) == [p \in Tabs |-> "none"]

\* lines 123-143: a click on tab button t
TabClick(t) ==
    /\ nextTimerId <= MaxTimerId
    /\ tabActive' = ActivateTab(tabActive, t)
    /\ containerClasses' = containerClasses \ {"slide-in"}
    /\ panelDisplay' = HideAll(panelDisplay)
    /\ timers' = SetTimeout(timers, nextTimerId, "tab", tabDelay)
    /\ tabTarget' = (nextTimerId :> t) @@ tabTarget
    /\ nextTimerId' = nextTimerId + 1
    /\ UNCHANGED <<searchViewActive, fieldValue, fieldSearching, resultActive,
                   resultContent, searchTimeout, geoReqs, geoIssued, hash, loadingActive,
                   containerOverflowY, errorDisplay, btnDisabled, currentWeatherSection,
                   hourlySection, highlightSection, forecastSection, chainVars>>

\* lines 139-142: the timer callback shows the panel it captured
TabTimerFire ==
    /\ TabTimers # {}
    /\ LET due == NextDue(TabTimers) IN
        /\ timers' = timers \ {due}
        /\ panelDisplay' = [panelDisplay EXCEPT ![tabTarget[due.id]] = "block"]
        /\ tabTarget' = [id \in DOMAIN tabTarget \ {due.id} |-> tabTarget[id]]
    /\ containerClasses' = containerClasses \cup {"slide-in"}
    /\ UNCHANGED <<searchViewActive, fieldValue, fieldSearching, resultActive,
                   resultContent, searchTimeout, nextTimerId, geoReqs, geoIssued, hash,
                   loadingActive, containerOverflowY, errorDisplay, btnDisabled,
                   currentWeatherSection, hourlySection, highlightSection,
                   forecastSection, chainVars, tabActive>>

NextTabs ==
    \/ \E t \in Tabs : TabClick(t)
    \/ TabTimerFire

----------------------------------------------------------------------------
(* Weather data, as the upstream API delivers it *)

Descriptions == {"broken clouds", "Broken Clouds", "clear sky"}
Icons == {"01d", "04d"}
Humidities == {40, 80}

Pressures == {1010}
Places == {"Dhaka, BD"}
AqiValues == {1, 5}
Patterns == 0..1
SlotsPerDay == 8     \* the forecast is a 3-hour forecast: 8 entries a day

CurrentWeatherResponses ==
    [description : Descriptions, icon : Icons, humidity : Humidities,
     pressure : Pressures]

\* The entry at (code) index i of a forecast list that starts at slot s0 of
\* a day; dt counts 3-hour slots, and dt_txt is the same instant as text.
\* Temperatures are in tenths of a degree, and differ from entry to entry.
\* The entry at index bad (if any) is malformed: it lacks the weather field.
Entry(s0, p, bad, i) ==
    [dt |-> s0 + i,
     temp |-> 10 * i + 5,
     temp_max |-> 10 * i + 8,
     description |-> CASE (i + p) % 3 = 0 -> "broken clouds"
                       [] (i + p) % 3 = 1 -> "clear sky"
                       [] OTHER -> "Broken Clouds",
     icon |-> IF (i + p) % 2 = 0 THEN "01d" ELSE "04d",
     ok |-> i # bad]

ForecastList(n, s0, p, bad) == [k \in 1..n |-> Entry(s0, p, bad, k - 1)]

NoBad == 0 - 1

\* module.js getHours: the hour of the day of a timestamp
GetHours(dt) == (dt % SlotsPerDay) * 3

\* parseInt of a non-negative temperature: its whole degrees
ParseInt(t) == t \div 10

\* new Date(dt_txt).getDate(): the calendar day of a date text
GetDate(dt) == dt \div SlotsPerDay

----------------------------------------------------------------------------
(* updateWeather, lines 152-433 *)

Chains == 1..MaxCalls

NoData == [none |-> TRUE]

\* line 191
NowIcon(description, icon) == IF description = "broken clouds" THEN "04.0d" ELSE icon

\* mutant: the description is compared without regard to case
HourlyIconIgnoreCase(description, icon) ==
    IF description \in {"broken clouds", "Broken Clouds"} THEN "04.0d" ELSE icon

\* line 251
HourlyIcon(description, icon) == IF description = "broken clouds" THEN "04.0d" ELSE icon

\* line 401
DailyIcon(description, icon) == IF description = "broken clouds" THEN "04.0d" ELSE icon

\* lines 187-216: the "now" card; card.chain is the identity of the element
NowCard(c, r) ==
    [chain |-> c, icon |-> NowIcon(r.description, r.icon), alt |-> r.description,
     location |-> ""]

\* lines 253-283
HourlyItem(e) ==
    [time |-> GetHours(e.dt), temp |-> ParseInt(e.temp),
     icon |-> HourlyIcon(e.description, e.icon), alt |-> e.description]

\* lines 403-424
DailyItem(e) ==
    [date |-> GetDate(e.dt), temp |-> ParseInt(e.temp_max),
     icon |-> DailyIcon(e.description, e.icon), alt |-> e.description]

\* lines 298-379: the highlights card, built from the closure's current weather
HighlightCard(c, r, aqi) ==
    [chain |-> c, humidity |-> r.humidity, pressure |-> r.pressure, aqi |-> aqi]

\* mutant: the break comes one entry late
HourlyBreakLate(index) == index > 8

\* line 242: if (index > 7) break
HourlyBreak(index) == index > 7

\* lines 241-285: the hourly loop; threw when an entry could not be destructured
RECURSIVE HourlyLoop(_, _, _)
HourlyLoop(list, index, acc) ==
    IF index >= Len(list) \/ HourlyBreak(index)
      THEN [items |-> acc, threw |-> FALSE]
      ELSE IF ~list[index + 1].ok
             THEN [items |-> acc, threw |-> TRUE]
             ELSE HourlyLoop(list, index + 1, Append(acc, HourlyItem(list[index + 1])))

\* line 393: let i = 7
DailyStart == 7

\* mutant: the step is one short
DailyNextShort(i) == i + 7

\* line 393: i += 8
DailyNext(i) == i + 8

\* lines 393-426: the daily loop
RECURSIVE DailyLoop(_, _, _)
DailyLoop(list, i, acc) ==
    IF ~(i < Len(list))
      THEN [items |-> acc, threw |-> FALSE]
      ELSE IF ~list[i + 1].ok
             THEN [items |-> acc, threw |-> TRUE]
             ELSE DailyLoop(list, DailyNext(i), Append(acc, DailyItem(list[i + 1])))

\* mutant: the forecast fetch is issued in parallel with the current-weather fetch
OnCallFanOut(rq) == [rq EXCEPT !.cur = "pending", !.fc = "pending"]

\* line 177: the current-weather fetch is issued by the call itself
OnCall(rq) == [rq EXCEPT !.cur = "pending"]

\* lines 218 and 226: the reverse-geocoding and forecast fetches are issued
\* by the current-weather callback
OnCurrent(rq) == [rq EXCEPT !.cur = "done", !.rev = "pending", !.fc = "pending"]

\* line 290: the air-pollution fetch is issued by the forecast callback,
\* between the hourly loop and the daily loop
OnForecast(rq, hourlyThrew, dailyThrew) ==
    IF hourlyThrew THEN [rq EXCEPT !.fc = "threwHourly"]
    ELSE IF dailyThrew THEN [rq EXCEPT !.fc = "threwDaily", !.air = "pending"]
    ELSE [rq EXCEPT !.fc = "done", !.air = "pending"]

\* mutant: loading is hidden whether or not the callback threw
LoadingAfterForecastAlways(threw, active) == FALSE

\* mutant: the forecast callback leaves the loading indicator as it is
LoadingAfterForecastNever(threw, active) == active

\* line 428: reached only when neither loop threw
LoadingAfterForecast(threw, active) == IF threw THEN active ELSE FALSE

\* mutant: the route is matched by prefix
IsCurrentLocationRoutePrefix(h) == h \in {CurrentLocationHash, "#/current-location/"}

\* line 168
IsCurrentLocationRoute(h) == h = CurrentLocationHash

\* lines 152-177: the synchronous part of updateWeather
UpdateWeather ==
    /\ nCalls < MaxCalls
    /\ nCalls' = nCalls + 1
    /\ loadingActive' = TRUE
    /\ containerOverflowY' = "hidden"
    /\ containerClasses' = containerClasses \ {"fade-in"}
    /\ errorDisplay' = "none"
    /\ currentWeatherSection' = << >>
    /\ hourlySection' = << >>
    /\ highlightSection' = << >>
    /\ forecastSection' = << >>
    /\ btnDisabled' = IsCurrentLocationRoute(hash)
    /\ req' = [req EXCEPT ![nCalls + 1] = OnCall(@)]
    /\ UNCHANGED <<searchVars, hash, cw, fcl, tabVars>>

\* mutant: a call cancels the chains before it; their responses are dropped
CurrentDoneCancelled(c, r) ==
    /\ req[c].cur = "pending"
    /\ IF c = nCalls
         THEN /\ cw' = [cw EXCEPT ![c] = r]
              /\ currentWeatherSection' = Append(currentWeatherSection, NowCard(c, r))
              /\ req' = [req EXCEPT ![c] = OnCurrent(@)]
         ELSE /\ req' = [req EXCEPT ![c].cur = "done"]
              /\ UNCHANGED <<cw, currentWeatherSection>>
    /\ UNCHANGED <<searchVars, hash, loadingActive, containerOverflowY, containerClasses,
                   errorDisplay, btnDisabled, hourlySection, highlightSection,
                   forecastSection, nCalls, fcl, tabVars>>

\* lines 177-226: the current-weather completion callback
CurrentDone(c, r) ==
    /\ req[c].cur = "pending"
    /\ cw' = [cw EXCEPT ![c] = r]
    /\ currentWeatherSection' = Append(currentWeatherSection, NowCard(c, r))
    /\ req' = [req EXCEPT ![c] = OnCurrent(@)]
    /\ UNCHANGED <<searchVars, hash, loadingActive, containerOverflowY, containerClasses,
                   errorDisplay, btnDisabled, hourlySection, highlightSection,
                   forecastSection, nCalls, fcl, tabVars>>

\* mutant: the label is looked up in the document, which finds the first card
SetLocationFirst(section, c, place) ==
    [k \in 1..Len(section) |->
        IF k = 1 THEN [section[k] EXCEPT !.location = place] ELSE section[k]]

\* lines 218-220: the reverse-geocoding callback writes the label of its own card
SetLocation(section, c, place) ==
    [k \in 1..Len(section) |->
        IF section[k].chain = c THEN [section[k] EXCEPT !.location = place] ELSE section[k]]

ReverseDone(c, place) ==
    /\ req[c].rev = "pending"
    /\ currentWeatherSection' = SetLocation(currentWeatherSection, c, place)
    /\ req' = [req EXCEPT ![c].rev = "done"]
    /\ UNCHANGED <<searchVars, hash, loadingActive, containerOverflowY, containerClasses,
                   errorDisplay, btnDisabled, hourlySection, highlightSection,
                   forecastSection, nCalls, cw, fcl, tabVars>>

\* lines 226-431: the forecast completion callback.  It stops where an entry
\* cannot be destructured: in the hourly loop before the air-pollution fetch
\* is issued, in the daily loop after it.
ForecastDone(c, list) ==
    LET hourly == HourlyLoop(list, 0, << >>)
        daily == DailyLoop(list, DailyStart, << >>)
        threw == hourly.threw \/ daily.threw
    IN
    /\ req[c].fc = "pending"
    /\ fcl' = [fcl EXCEPT ![c] = list]
    /\ req' = [req EXCEPT ![c] = OnForecast(@, hourly.threw, daily.threw)]
    /\ hourlySection' = << hourly.items >>
    /\ forecastSection' = IF hourly.threw THEN forecastSection ELSE << daily.items >>
    /\ loadingActive' = LoadingAfterForecast(threw, loadingActive)
    /\ containerOverflowY' = IF threw THEN containerOverflowY ELSE "overlay"
    /\ containerClasses' = IF threw THEN containerClasses ELSE containerClasses \cup {"fade-in"}
    /\ UNCHANGED <<searchVars, hash, errorDisplay, btnDisabled, currentWeatherSection,
                   highlightSection, nCalls, cw, tabVars>>

\* mutant: the current weather is kept in one variable shared by all calls,
\* so a card shows the values of the latest response received
LatestWeather(c) ==
    cw[CHOOSE d \in Chains :
          /\ req[d].cur = "done"
          /\ \A e \in Chains : req[e].cur = "done" => e <= d]

\* lines 178-186: the values destructured from the current-weather response
\* are constants of the callback, one set per call; the air-pollution
\* callback reads them through its closure
ClosureWeather(c) == cw[c]

\* lines 290-381: the air-pollution completion callback
AirDone(c, aqi) ==
    /\ req[c].air = "pending"
    /\ highlightSection' = Append(highlightSection, HighlightCard(c, ClosureWeather(c), aqi))
    /\ req' = [req EXCEPT ![c].air = "done"]
    /\ UNCHANGED <<searchVars, hash, loadingActive, containerOverflowY, containerClasses,
                   errorDisplay, btnDisabled, currentWeatherSection, hourlySection,
                   forecastSection, nCalls, cw, fcl, tabVars>>

\* a fetch that fails: its completion callback never runs, or throws on the
\* destructuring of the response, before it has written anything
FetchFail(c, which) ==
    /\ req[c][which] = "pending"
    /\ req' = [req EXCEPT ![c][which] = "failed"]
    /\ UNCHANGED <<searchVars, hash, pageVars, nCalls, cw, fcl, tabVars>>

\* mutant: error404 shows the panel and leaves the loading indicator alone
Error404KeepsLoading ==
    /\ errorDisplay' = "flex"
    /\ UNCHANGED <<searchVars, hash, loadingActive, containerOverflowY, containerClasses,
                   btnDisabled, currentWeatherSection, hourlySection, highlightSection,
                   forecastSection, chainVars, tabVars>>

\* lines 435-438
Error404 ==
    /\ errorDisplay' = "flex"
    /\ loadingActive' = FALSE
    /\ UNCHANGED <<searchVars, hash, containerOverflowY, containerClasses, btnDisabled,
                   currentWeatherSection, hourlySection, highlightSection,
                   forecastSection, chainVars, tabVars>>

\* lines 113-115; a disabled button receives no click
CurrentLocationClick ==
    /\ ~btnDisabled
    /\ hash' = CurrentLocationHash
    /\ UNCHANGED <<searchVars, pageVars, chainVars, tabVars>>

\* the user moves to another route (a link, the address bar)
Navigate(h) ==
    /\ hash' = h
    /\ UNCHANGED <<searchVars, pageVars, chainVars, tabVars>>

\* every well-formed forecast list of the bounds
ForecastLists ==
    {ForecastList(n, s0, p, NoBad) :
        n \in 0..MaxList, s0 \in 0..(SlotsPerDay - 1), p \in Patterns}

(* One call of updateWeather, over every response of the bounds *)
NextRender ==
    \/ nCalls = 0 /\ UpdateWeather
    \/ \E c \in Chains, r \in CurrentWeatherResponses : CurrentDone(c, r)
    \/ \E c \in Chains, place \in Places : ReverseDone(c, place)
    \/ \E c \in Chains, list \in ForecastLists : ForecastDone(c, list)
    \/ \E c \in Chains, aqi \in AqiValues : AirDone(c, aqi)

(* A sample of responses: call c is answered with a current weather of its *)
(* own, and a forecast is a well-formed list, one whose entry 2 is         *)
(* malformed (the hourly loop throws) or one whose entry 15 is (the daily  *)
(* loop throws).                                                           *)
CurrentSample(c) ==
    [description |-> IF c % 2 = 1 THEN "broken clouds" ELSE "clear sky",
     icon |-> "01d", humidity |-> 40 + c, pressure |-> 1000 + c]

WellFormedSample == ForecastList(9, 0, 0, NoBad)

ForecastSample ==
    {WellFormedSample, ForecastList(9, 0, 0, 2), ForecastList(16, 0, 0, 15)}

(* Overlapping calls of updateWeather, with fetches that fail *)
NextChain ==
    \/ UpdateWeather
    \/ \E c \in Chains : CurrentDone(c, CurrentSample(c))
    \/ \E c \in Chains, place \in Places : ReverseDone(c, place)
    \/ \E c \in Chains, list \in ForecastSample : ForecastDone(c, list)
    \/ \E c \in Chains : AirDone(c, 1)
    \/ \E c \in Chains, which \in {"cur", "rev", "fc", "air"} : FetchFail(c, which)

(* The router's two entry points, updateWeather and error404, called on    *)
(* any route while earlier calls are still being answered                  *)
NextRoute ==
    \/ UpdateWeather
    \/ \E c \in Chains : CurrentDone(c, CurrentSample(c))
    \/ \E c \in Chains, place \in Places : ReverseDone(c, place)
    \/ \E c \in Chains : ForecastDone(c, WellFormedSample)
    \/ \E c \in Chains : AirDone(c, 1)
    \/ Error404
    \/ CurrentLocationClick
    \/ \E h \in Hashes : Navigate(h)

Init ==
    /\ searchViewActive = FALSE
    /\ fieldValue = ""
    /\ fieldSearching = FALSE
    /\ resultActive = FALSE
    /\ resultContent = << >>
    /\ searchTimeout = Null
    /\ timers = {}
    /\ nextTimerId = 1
    /\ geoReqs = << >>
    /\ geoIssued = << >>
    /\ hash = ""
    /\ loadingActive \in BOOLEAN
    /\ containerOverflowY = ""
    /\ containerClasses = {}
    /\ errorDisplay \in {"none", "flex"}
    /\ btnDisabled = FALSE
    /\ currentWeatherSection = << >>
    /\ hourlySection = << >>
    /\ highlightSection = << >>
    /\ forecastSection = << >>
    /\ nCalls = 0
    /\ req = [c \in Chains |-> [cur |-> "none", rev |-> "none", fc |-> "none", air |-> "none"]]
    /\ cw = [c \in Chains |-> NoData]
    /\ fcl = [c \in Chains |-> << >>]
    /\ tabActive = {1}
    /\ panelDisplay = [p \in Tabs |-> ""]
    /\ tabTarget = [id \in {} |-> 0]

InitSearch == Init /\ ~loadingActive /\ errorDisplay = "none"

SpecSearch == InitSearch /\ [][NextSearch]_vars

SpecRender == Init /\ [][NextRender]_vars

SpecChain == Init /\ [][NextChain]_vars

SpecRoute == Init /\ [][NextRoute]_vars

SpecTabs == InitSearch /\ [][NextTabs]_vars

Next == NextSearch \/ NextTabs \/ NextRender \/ NextChain \/ NextRoute

Spec == Init /\ [][Next]_vars

----------------------------------------------------------------------------
(* Claims *)

\* C1: when every debounce delay has elapsed after a burst of input events
\* that left the field non-empty, exactly one geocoding fetch has been
\* issued in the burst, and it is for the final input value.
C1_OneFetchPerBurst ==
    (SearchTimers = {} /\ searchTimeout # Null /\ fieldValue # "")
        => geoIssued = << fieldValue >>

\* C2: in every chain the forecast fetch is issued only once the
\* current-weather response has been delivered, and the air-pollution fetch
\* only once the forecast response has been delivered.
C2_StrictOrder ==
    \A c \in Chains :
        /\ req[c].fc # "none" => req[c].cur = "done"
        /\ req[c].air # "none" => (req[c].cur = "done" /\ req[c].fc \notin {"none", "pending"})

C2_Witness ==
    \E c \in Chains :
        req[c].cur = "done" /\ req[c].fc = "done" /\ req[c].air = "pending"
            /\ req[c].rev = "pending"

\* C3: once every response of every chain started has been delivered with
\* success, the page holds exactly one now card, one hourly list of at most
\* 8 items, exactly one highlights card and one daily list, and the loading
\* indicator is inactive.
C3_OneOfEach ==
    (nCalls >= 1 /\ \A c \in 1..nCalls :
            req[c] = [cur |-> "done", rev |-> "done", fc |-> "done", air |-> "done"])
        => /\ Len(currentWeatherSection) = 1
           /\ Len(hourlySection) = 1 /\ Len(hourlySection[1]) <= 8
           /\ Len(highlightSection) = 1
           /\ Len(forecastSection) = 1
           /\ ~loadingActive

\* C4: a step that shows the error panel, or that hides the loading
\* indicator without any fetch being answered, is a call of error404; it
\* leaves the panel at flex and loading inactive and changes nothing else.
C4_Error404 ==
    [][ ((errorDisplay # "flex" /\ errorDisplay' = "flex")
            \/ (loadingActive /\ ~loadingActive' /\ req' = req))
        => /\ errorDisplay' = "flex"
           /\ ~loadingActive'
           /\ UNCHANGED <<currentWeatherSection, hourlySection, highlightSection,
                          forecastSection, containerClasses, containerOverflowY,
                          btnDisabled, hash, chainVars>> ]_vars

C4_Witness ==
    /\ errorDisplay = "flex" /\ ~loadingActive
    /\ nCalls = 1 /\ req[1].fc = "pending"
    /\ Len(currentWeatherSection) = 1 /\ hourlySection = << >>

\* C5: in the state a call of updateWeather leaves, the four regions are
\* empty, loading is active, the error panel is hidden, and the
\* current-location button is disabled exactly when the hash is
\* "#/current-location".
C5_AfterCall ==
    [][ nCalls' = nCalls + 1
        => /\ currentWeatherSection' = << >> /\ hourlySection' = << >>
           /\ highlightSection' = << >> /\ forecastSection' = << >>
           /\ loadingActive'
           /\ errorDisplay' = "none"
           /\ btnDisabled' <=> (hash' = "#/current-location") ]_vars

C5_Witness ==
    /\ nCalls = 2 /\ req[1].air = "done" /\ req[2].cur = "pending"
    /\ currentWeatherSection = << >> /\ hourlySection = << >>
    /\ highlightSection = << >> /\ forecastSection = << >>
    /\ loadingActive /\ errorDisplay = "none"
    /\ btnDisabled /\ hash = "#/current-location"

\* C6 (as stated): when a fetch of the only chain has failed and error404
\* has not been called, no later fetch of the chain has been issued and the
\* loading indicator is still active.
C6_FailureAborts ==
    \A c \in Chains :
        (/\ nCalls = 1 /\ errorDisplay = "none"
         /\ \/ req[c].cur = "failed" \/ req[c].rev = "failed" \/ req[c].air = "failed"
            \/ req[c].fc \in {"failed", "threwHourly", "threwDaily"})
        => /\ loadingActive
           /\ req[c].cur = "failed" =>
                (req[c].rev = "none" /\ req[c].fc = "none" /\ req[c].air = "none")
           /\ req[c].fc \in {"failed", "threwHourly"} => req[c].air = "none"

\* C6 (amended): a failed current-weather fetch issues no later fetch; a
\* forecast fetch that fails, or whose callback throws in the hourly loop,
\* issues no air-pollution fetch; a chain whose current-weather or forecast
\* fetch failed (the callback never ran, or threw in either loop) never
\* hides the loading indicator, so with no other call of updateWeather and
\* no call of error404 loading stays active, the container is not revealed
\* and the regions the chain had not written yet are still empty; no step
\* of a chain shows the error panel.
C6_FailureEffects ==
    /\ nCalls >= 1 => errorDisplay = "none"
    /\ \A c \in Chains :
        /\ req[c].cur = "failed" =>
              (req[c].rev = "none" /\ req[c].fc = "none" /\ req[c].air = "none")
        /\ req[c].fc \in {"failed", "threwHourly"} => req[c].air = "none"
        /\ (nCalls = 1 /\ errorDisplay = "none") =>
              /\ (req[c].cur = "failed" \/ req[c].fc \in {"failed", "threwHourly", "threwDaily"})
                    => (loadingActive /\ "fade-in" \notin containerClasses)
              /\ req[c].cur = "failed" =>
                    (currentWeatherSection = << >> /\ hourlySection = << >>
                        /\ highlightSection = << >> /\ forecastSection = << >>)
              /\ req[c].fc = "failed" =>
                    (hourlySection = << >> /\ highlightSection = << >>
                        /\ forecastSection = << >>)
              /\ req[c].fc = "threwHourly" =>
                    (highlightSection = << >> /\ forecastSection = << >>)

C6_Witness ==
    /\ nCalls = 1 /\ req[1].fc = "threwDaily" /\ req[1].air = "done"
    /\ loadingActive /\ Len(highlightSection) = 1

\* C7: the hourly list rendered from a forecast list of length n has
\* min(8, n) items, the entries at indices 0..min(8, n)-1 in order.
C7_HourlyPrefix ==
    \A c \in Chains :
        req[c].fc = "done" =>
            /\ Len(hourlySection) = 1
            /\ LET items == hourlySection[1]
                   list == fcl[c]
                   m == IF Len(list) < 8 THEN Len(list) ELSE 8
               IN /\ Len(items) = m
                  /\ \A k \in 1..m :
                        /\ items[k].temp = ParseInt(list[k].temp)
                        /\ items[k].time = GetHours(list[k].dt)
                        /\ items[k].alt = list[k].description

C7_Witness ==
    /\ req[1].fc = "done" /\ Len(fcl[1]) = 11
    /\ Len(hourlySection) = 1 /\ Len(hourlySection[1]) = 8

\* C8: the daily list rendered from a forecast list of length n holds the
\* entries at indices 7, 15, 23, ... below n, in order: floor(n/8) entries,
\* none when n < 8, each of a different day.
C8_DailySample ==
    \A c \in Chains :
        req[c].fc = "done" =>
            /\ Len(forecastSection) = 1
            /\ LET items == forecastSection[1]
                   list == fcl[c]
               IN /\ Len(items) = Len(list) \div 8
                  /\ \A k \in 1..Len(items) :
                        /\ items[k].temp = ParseInt(list[8 * k].temp_max)
                        /\ items[k].date = GetDate(list[8 * k].dt)
                        /\ items[k].alt = list[8 * k].description
                  /\ \A j, k \in 1..Len(items) : j # k => items[j].date # items[k].date

C8_Witness ==
    /\ req[1].fc = "done" /\ Len(fcl[1]) = 24
    /\ Len(forecastSection) = 1 /\ Len(forecastSection[1]) = 3

\* C9: in the now card, every hourly item and every daily item the icon is
\* "04.0d" when the description is exactly "broken clouds" and the icon
\* code of the response otherwise.
C9_IconSubstitution ==
    LET want(e) == IF e.description = "broken clouds" THEN "04.0d" ELSE e.icon IN
    /\ \A k \in 1..Len(currentWeatherSection) :
          currentWeatherSection[k].icon = want(cw[currentWeatherSection[k].chain])
    /\ \A c \in Chains :
          req[c].fc = "done" =>
              /\ \A k \in 1..Len(hourlySection[1]) :
                    hourlySection[1][k].icon = want(fcl[c][k])
              /\ \A k \in 1..Len(forecastSection[1]) :
                    forecastSection[1][k].icon = want(fcl[c][8 * k])

C9_Witness ==
    /\ Len(currentWeatherSection) = 1 /\ currentWeatherSection[1].icon = "04.0d"
    /\ cw[1].description = "broken clouds" /\ cw[1].icon = "01d"
    /\ req[1].fc = "done"
    /\ \E k \in 1..Len(hourlySection[1]) :
          /\ fcl[1][k].description = "broken clouds" /\ fcl[1][k].icon = "01d"
          /\ hourlySection[1][k].icon = "04.0d"
    /\ \E k \in 1..Len(hourlySection[1]) :
          /\ fcl[1][k].description = "Broken Clouds" /\ fcl[1][k].icon = "01d"
          /\ hourlySection[1][k].icon = "01d"
    /\ \E k \in 1..Len(forecastSection[1]) :
          /\ fcl[1][8 * k].description = "broken clouds" /\ fcl[1][8 * k].icon = "04d"
          /\ forecastSection[1][k].icon = "04.0d"

\* C10: an input event with the field empty leaves the result panel
\* inactive and empty and the field without "searching", and sets no timer.
C10_EmptyInput ==
    [][ Input("")
        => /\ ~resultActive' /\ resultContent' = << >>
           /\ ~fieldSearching'
           /\ timers' \subseteq timers
           /\ nextTimerId' = nextTimerId /\ searchTimeout' = searchTimeout ]_vars

C10_Witness ==
    /\ fieldValue = "" /\ searchTimeout # Null
    /\ ~resultActive /\ resultContent = << >> /\ ~fieldSearching
    /\ SearchTimers # {} /\ geoReqs # << >>

\* C11: a call of updateWeather cancels nothing.  It leaves the requests of
\* the earlier chains as they are, and the callbacks of a chain that a later
\* call has overtaken still write to the page and issue the chain's next
\* fetches: the current-weather callback appends its now card, the forecast
\* callback writes the hourly and daily lists, the air-pollution callback
\* appends its highlights card.
C11_NoCancellation ==
    [][ /\ nCalls' = nCalls + 1 => \A c \in 1..nCalls : req'[c] = req[c]
        /\ \A c \in Chains :
            c < nCalls =>
              /\ (req[c].cur = "pending" /\ req'[c].cur = "done") =>
                    /\ Len(currentWeatherSection') = Len(currentWeatherSection) + 1
                    /\ currentWeatherSection'[Len(currentWeatherSection')].chain = c
                    /\ req'[c].rev = "pending" /\ req'[c].fc = "pending"
              /\ (req[c].fc = "pending" /\ req'[c].fc = "done") =>
                    /\ Len(hourlySection') = 1 /\ Len(forecastSection') = 1
                    /\ req'[c].air = "pending"
              /\ (req[c].air = "pending" /\ req'[c].air = "done") =>
                    /\ Len(highlightSection') = Len(highlightSection) + 1
                    /\ highlightSection'[Len(highlightSection')].chain = c ]_vars

C11_Witness ==
    /\ nCalls = 2 /\ Len(currentWeatherSection) = 2
    /\ currentWeatherSection[1].chain # currentWeatherSection[2].chain

\* C12: once every request of every call made has been answered, the now
\* cards and the highlights cards on the page are those of the most recent
\* call, and the hourly and daily lists were written by it.
C12_OnlyLatest ==
    (nCalls >= 1 /\ \A c \in 1..nCalls :
            req[c] = [cur |-> "done", rev |-> "done", fc |-> "done", air |-> "done"])
        => /\ \A k \in 1..Len(currentWeatherSection) :
                 currentWeatherSection[k].chain = nCalls
           /\ \A k \in 1..Len(highlightSection) : highlightSection[k].chain = nCalls

\* C16: reverse geocoding is fire-and-forget.  The current-weather callback
\* issues the forecast fetch together with the reverse-geocoding fetch, and
\* the forecast callback hides the loading indicator, whatever the state of
\* the reverse-geocoding request.  When the reverse-geocoding response
\* arrives it changes nothing but the location label of the now card of its
\* own chain.
C16_ReverseGeoFrame ==
    [][ \A c \in Chains :
          /\ (req[c].cur = "pending" /\ req'[c].cur = "done") =>
                (req'[c].rev = "pending" /\ req'[c].fc = "pending")
          /\ (req[c].fc = "pending" /\ req'[c].fc = "done") =>
                (~loadingActive' /\ req'[c].rev = req[c].rev)
          /\ (req[c].rev = "pending" /\ req'[c].rev = "done") =>
                /\ UNCHANGED <<searchVars, hash, loadingActive, containerOverflowY,
                               containerClasses, errorDisplay, btnDisabled, hourlySection,
                               highlightSection, forecastSection, nCalls, cw, fcl>>
                /\ req' = [req EXCEPT ![c].rev = "done"]
                /\ Len(currentWeatherSection') = Len(currentWeatherSection)
                /\ \A k \in 1..Len(currentWeatherSection) :
                      IF currentWeatherSection[k].chain = c
                        THEN currentWeatherSection'[k] =
                               [currentWeatherSection[k] EXCEPT
                                   !.location = currentWeatherSection'[k].location]
                        ELSE currentWeatherSection'[k] = currentWeatherSection[k] ]_vars

C16_Witness ==
    /\ nCalls = 2 /\ Len(currentWeatherSection) = 2
    /\ currentWeatherSection[1].chain = 1 /\ currentWeatherSection[1].location = ""
    /\ currentWeatherSection[2].chain = 2 /\ currentWeatherSection[2].location # ""
    /\ req[1].rev = "failed" /\ req[1].fc = "done" /\ req[2].rev = "done"
    /\ ~loadingActive

\* C17: with a single call of updateWeather, the loading indicator is active
\* from the call until the forecast callback has rendered the hourly and the
\* daily list; that same step deactivates it and reveals the container
\* (overflow-y "overlay", class "fade-in"), without waiting for the
\* air-pollution response.
C17_LoadingUntilForecast ==
    nCalls = 1 =>
        /\ loadingActive <=> req[1].fc # "done"
        /\ req[1].fc = "done" =>
              /\ Len(hourlySection) = 1 /\ Len(forecastSection) = 1
              /\ containerOverflowY = "overlay" /\ "fade-in" \in containerClasses
        /\ req[1].fc # "done" =>
              /\ containerOverflowY = "hidden" /\ "fade-in" \notin containerClasses

C17_Witness ==
    /\ nCalls = 1 /\ req[1].fc = "done" /\ req[1].air = "pending"
    /\ ~loadingActive /\ highlightSection = << >>
    /\ "fade-in" \in containerClasses

\* C18: every highlights card is built from one chain only: its humidity and
\* its pressure are those of the current-weather response of the call whose
\* air-pollution response built the card, for every interleaving of
\* overlapping calls.
C18_CardFromOneChain ==
    \A k \in 1..Len(highlightSection) :
        LET card == highlightSection[k] IN
        /\ req[card.chain].cur = "done" /\ req[card.chain].air = "done"
        /\ card.humidity = cw[card.chain].humidity
        /\ card.pressure = cw[card.chain].pressure

C18_Witness ==
    /\ Len(highlightSection) = 2
    /\ highlightSection[1].chain = 1 /\ highlightSection[2].chain = 2
    /\ highlightSection[1].humidity # highlightSection[2].humidity
    /\ req[2].cur = "done"

\* C15: a click on a rendered search result closes the search panel: after
\* it the search view does not carry "active" and the result panel is
\* inactive, whatever the state of the search view before the click.
C15_ResultClickCloses ==
    [][ \A i \in 1..MaxLocations :
          SearchResultClick(i) => (~searchViewActive' /\ ~resultActive') ]_vars

\* C19: while the search field is empty, the result panel is inactive and
\* empty and no geocoding fetch for the empty value is in flight: neither a
\* timer set by an earlier keystroke nor a response still in flight
\* re-activates or refills the panel.
C19_EmptyFieldStaysCleared ==
    fieldValue = "" =>
        /\ ~resultActive
        /\ resultContent = << >>
        /\ \A j \in 1..Len(geoReqs) : geoReqs[j].q # ""

\* C13: once every pending tab timer has fired after a sequence of tab
\* clicks, exactly one content panel is displayed, and it is the panel of
\* the tab clicked last (the button that carries "active").
C13_OnePanelShown ==
    (TabTimers = {} /\ \E p \in Tabs : panelDisplay[p] # "") =>
        \A p \in Tabs : panelDisplay[p] = "block" <=> tabActive = {p}

\* C14: after every click on a tab button, the clicked button is the one and
\* only tab button that carries "active".
C14_OneActiveTab ==
    [][ \A t \in Tabs : TabClick(t) => tabActive' = {t} ]_vars

C14_Witness ==
    /\ tabActive = {2}
    /\ \E id \in DOMAIN tabTarget : tabTarget[id] = 2
    /\ \E p \in Tabs : panelDisplay[p] = "none"

====
